---- MODULE Spec2Model ----
(***************************************************************************)
(* A model of examples/render.rs of skribo: the 8-bit coverage surface     *)
(* SimpleSurface (new, paint_from_canvas, write_pgm, paint_layout) and the *)
(* per-pixel function composite.                                           *)
(*                                                                         *)
(* Rust vectors are modelled as sequences: Rust index i is element i + 1.  *)
(* i32 arithmetic is modelled at its real width: every +, - and * of the   *)
(* blit is an operator that returns the wrapped 32-bit value together with *)
(* an overflow flag.  A build with overflow checks ("debug", the default   *)
(* of `cargo run --example`) panics where the flag is set, a build without *)
(* ("release") goes on with the wrapped value.  Vec indexing is bounds     *)
(* checked in both builds and panics on an index out of range.             *)
(***************************************************************************)
EXTENDS Integers, Sequences, FiniteSets

VARIABLES
    build,      \* "debug" | "release": overflow checks on or off
    ctor,       \* the arguments SimpleSurface::new was called with
    width,      \* SimpleSurface.width
    height,     \* SimpleSurface.height
    pixels,     \* SimpleSurface.pixels
    file,       \* the bytes of the destination file of write_pgm
    panicked,   \* the thread has panicked: the program is over
    ncalls,     \* number of surface methods called so far
    frame,      \* the call that has just returned: arguments, pre-state, result
    probe       \* arguments and intermediates of one call of composite

vars == <<build, ctor, width, height, pixels, file, panicked, ncalls, frame, probe>>

(***************************************************************************)
(* Bounds of the model.                                                    *)
(***************************************************************************)
MaxW == 2          \* surface widths 0..MaxW
MaxH == 2          \* surface heights 0..MaxH
MaxCW == 2         \* canvas widths 0..MaxCW
MaxCH == 2         \* canvas heights 0..MaxCH
MaxCalls == 2      \* calls of surface methods per run
MaxGlyphs == 2     \* glyphs per layout

(***************************************************************************)
(* Machine integers.                                                       *)
(***************************************************************************)
U8Max == 255
U16Max == 65535
MaxI32 == 2147483647
MinI32 == -MaxI32 - 1

Max2(a, b) == IF a >= b THEN a ELSE b
Min2(a, b) == IF a <= b THEN a ELSE b

\* -a in i32: overflows exactly for a = i32::MIN, where it wraps to i32::MIN.
I32Neg(a) ==
    IF a = MinI32 THEN [val |-> MinI32, ovf |-> TRUE]
    ELSE [val |-> -a, ovf |-> FALSE]

\* a + b in i32, wrapped modulo 2^32.
I32Add(a, b) ==
    IF b > 0 /\ a > MaxI32 - b
        THEN [val |-> ((a - MaxI32) + (b - MaxI32)) - 2, ovf |-> TRUE]
    ELSE IF b < 0 /\ a < MinI32 - b
        THEN [val |-> ((a + MaxI32) + 1) + ((b + MaxI32) + 1), ovf |-> TRUE]
    ELSE [val |-> a + b, ovf |-> FALSE]

\* a - b in i32, wrapped modulo 2^32.
I32Sub(a, b) ==
    IF b < 0 /\ a > MaxI32 + b
        THEN [val |-> ((a - MaxI32) - 1) - ((b + MaxI32) + 1), ovf |-> TRUE]
    ELSE IF b > 0 /\ a < MinI32 + b
        THEN [val |-> (((((a + MaxI32) + 1) - b) + MaxI32) + 1), ovf |-> TRUE]
    ELSE [val |-> a - b, ovf |-> FALSE]

\* a * n in i32 for a multiplier n >= 0, as n wrapping additions of a (the
\* multipliers of the blit, the surface width and the row counter, are
\* never negative).  The flag is set iff the true product leaves i32.
RECURSIVE I32Mul(_, _)
I32Mul(a, n) ==
    IF n = 0 THEN [val |-> 0, ovf |-> FALSE]
    ELSE LET r == I32Mul(a, n - 1)
             s == I32Add(r.val, a)
         IN  [val |-> s.val, ovf |-> r.ovf \/ s.ovf]

\* `v as usize` used as an index into a Vec of length len: a negative i32
\* becomes an index above every length, so the access is in range iff
\* 0 <= v < len.
IndexOk(v, len) == v >= 0 /\ v < len

(***************************************************************************)
(* composite (render.rs 22-26).                                            *)
(***************************************************************************)
\* composite with the rounding term 0x80 left out.
CompositeStepsNoRound(a, b) ==
    LET p == (U8Max - a) * (U8Max - b)
        pw == p % (U16Max + 1)
        s == pw + (pw \div 256)
        q == (s % (U16Max + 1)) \div 256
        cast == q % (U8Max + 1)
    IN  [p |-> p, s |-> s, q |-> q, cast |-> cast, res |-> U8Max - cast]

\* composite with the inverses taken from 256 instead of 255.
CompositeStepsFrom256(a, b) ==
    LET p == (U8Max + 1 - a) * (U8Max + 1 - b)
        pw == p % (U16Max + 1)
        s == pw + (pw \div 256) + 128
        q == (s % (U16Max + 1)) \div 256
        cast == q % (U8Max + 1)
    IN  [p |-> p, s |-> s, q |-> q, cast |-> cast, res |-> U8Max - cast]

\* The intermediates of composite(a, b): p and s are the true values of the
\* two u16 expressions, q the u16 result of the second, cast its `as u8`.
CompositeSteps(a, b) ==
    LET p == (U8Max - a) * (U8Max - b)
        pw == p % (U16Max + 1)
        s == pw + (pw \div 256) + 128
        q == (s % (U16Max + 1)) \div 256
        cast == q % (U8Max + 1)
    IN  [p |-> p, s |-> s, q |-> q, cast |-> cast, res |-> U8Max - cast]

\* Blends that do not depend on the order of the inks: the larger of the
\* two values, and their saturating sum.
CompositeMax(a, b) == Max2(a, b)
CompositeSaturatingAdd(a, b) == Min2(U8Max, a + b)

Composite(a, b) == CompositeSteps(a, b).res

(***************************************************************************)
(* font_kit's Canvas in format A8: size and a row-major Vec<u8> of         *)
(* size.width * size.height bytes (Canvas::new, called at render.rs 82).   *)
(***************************************************************************)
\* Coverage of the canvas byte with Rust index i under a fill [base, step].
FillByte(fill, i) == (fill.base + fill.step * i) % (U8Max + 1)

MkCanvas(cw, ch, fill) ==
    [size |-> [width |-> cw, height |-> ch],
     pixels |-> [i \in 1..(cw * ch) |-> FillByte(fill, i - 1)]]

(***************************************************************************)
(* SimpleSurface::paint_from_canvas (render.rs 40-54).                     *)
(***************************************************************************)
\* Lines 41-46: the clipped ranges, in canvas coordinates, and whether -x,
\* w - x, -y or h - y overflowed.
ClipRange(canvas, x, y, w, h) ==
    LET cw == canvas.size.width
        ch == canvas.size.height
        nx == I32Neg(x)
        sx == I32Sub(w, x)
        ny == I32Neg(y)
        sy == I32Sub(h, y)
    IN  [xmin |-> Max2(0, nx.val), xmax |-> Min2(cw, sx.val),
         ymin |-> Max2(0, ny.val), ymax |-> Min2(ch, sy.val),
         ovf |-> nx.ovf \/ sx.ovf \/ ny.ovf \/ sy.ovf]

\* The inner loop storing the canvas byte instead of compositing it.
PaintPixelStoreInk(st, canvas, x, y, w, bld, yy, xx) ==
    LET src == canvas.size.width * yy + xx
        dst == (y + yy) * w + x + xx
    IN  [st EXCEPT !.pixels[dst + 1] = canvas.pixels[src + 1],
                   !.writes = Append(@, dst),
                   !.reads = Append(@, src)]

\* Lines 49-51: one iteration of the inner loop on the state st of the call.
PaintPixel(st, canvas, x, y, w, bld, yy, xx) ==
    LET cw == canvas.size.width
        m1 == I32Mul(cw, yy)
        src == I32Add(m1.val, xx)
        srcOvf == m1.ovf \/ src.ovf
        t1 == I32Add(y, yy)
        t2 == I32Mul(t1.val, w)
        t3 == I32Add(t2.val, x)
        dst == I32Add(t3.val, xx)
        dstOvf == t1.ovf \/ t2.ovf \/ t3.ovf \/ dst.ovf
        ovf == st.ovf \/ srcOvf \/ dstOvf
    IN  IF bld = "debug" /\ (srcOvf \/ dstOvf)
            THEN [st EXCEPT !.panic = TRUE, !.ovf = TRUE]
        ELSE IF ~IndexOk(src.val, Len(canvas.pixels))
                \/ ~IndexOk(dst.val, Len(st.pixels))
            THEN [st EXCEPT !.panic = TRUE, !.ovf = ovf]
        ELSE [st EXCEPT
                !.pixels[dst.val + 1] =
                    Composite(st.pixels[dst.val + 1], canvas.pixels[src.val + 1]),
                !.writes = Append(@, dst.val),
                !.reads = Append(@, src.val),
                !.ovf = ovf]

\* Lines 47-48: iteration k (from 0) of the nested loops, rows outside,
\* over yy in ymin..max(ymax, ymin) and xx in xmin..max(xmax, xmin).
RECURSIVE PaintLoop(_, _, _, _, _, _, _, _)
PaintLoop(st, canvas, x, y, w, bld, c, k) ==
    LET nx == Max2(c.xmax, c.xmin) - c.xmin
        ny == Max2(c.ymax, c.ymin) - c.ymin
    IN  IF st.panic \/ nx = 0 \/ k >= nx * ny THEN st
        ELSE PaintLoop(
                PaintPixel(st, canvas, x, y, w, bld,
                           c.ymin + (k \div nx), c.xmin + (k % nx)),
                canvas, x, y, w, bld, c, k + 1)

\* The whole call on a surface (px, w, h): the pixels it leaves, the
\* destination and source indices it accessed, in order, whether it
\* panicked and whether any i32 operation overflowed.
PaintFromCanvas(px, w, h, canvas, x, y, bld) ==
    LET c == ClipRange(canvas, x, y, w, h)
        st0 == [pixels |-> px, writes |-> <<>>, reads |-> <<>>,
                panic |-> FALSE, ovf |-> c.ovf]
    IN  IF bld = "debug" /\ c.ovf THEN [st0 EXCEPT !.panic = TRUE]
        ELSE PaintLoop(st0, canvas, x, y, w, bld, c, 0)

(***************************************************************************)
(* SimpleSurface::write_pgm (render.rs 56-61).                             *)
(***************************************************************************)
\* `{}` of a usize: its decimal digits as ASCII bytes.
RECURSIVE Decimal(_)
Decimal(n) ==
    IF n < 10 THEN <<48 + n>>
    ELSE Append(Decimal(n \div 10), 48 + (n % 10))

\* Line 58: the bytes of format!("P5\n{} {}\n255\n", w, h).
PgmHeader(w, h) ==
    <<80, 53, 10>> \o Decimal(w) \o <<32>> \o Decimal(h) \o <<10, 50, 53, 53, 10>>

\* What the operating system does with the three I/O steps of one call:
\* File::create fails or truncates the file; write! (Write::write_all under
\* write_fmt) writes the whole header or fails after a proper prefix of n
\* bytes; Write::write makes one attempt, which fails or accepts the first
\* n bytes of the buffer, 0 <= n <= len.
IoOutcomes(hlen, plen) ==
    {[step |-> "create", n |-> 0]}
        \cup {[step |-> "header", n |-> n] : n \in 0..(hlen - 1)}
        \cup {[step |-> "body", n |-> 0]}
        \cup {[step |-> "ok", n |-> n] : n \in 0..plen}

\* The call under outcome io: its return value and the file it leaves.
WritePgm(px, w, h, old, io) ==
    LET hdr == PgmHeader(w, h)
    IN  CASE io.step = "create" -> [ret |-> "Err", file |-> old]
          [] io.step = "header" ->
                [ret |-> "Err",
                 file |-> [exists |-> TRUE, bytes |-> SubSeq(hdr, 1, io.n)]]
          [] io.step = "body" ->
                [ret |-> "Err", file |-> [exists |-> TRUE, bytes |-> hdr]]
          [] io.step = "ok" ->
                [ret |-> "Ok",
                 file |-> [exists |-> TRUE,
                           bytes |-> hdr \o SubSeq(px, 1, io.n)]]

(***************************************************************************)
(* SimpleSurface::paint_layout (render.rs 63-99).                          *)
(***************************************************************************)
\* `v as i32` of an f32 given in half units (3 is 1.5): truncation toward
\* zero.
F32AsI32(half) == IF half >= 0 THEN half \div 2 ELSE -((-half) \div 2)

\* The font: for each glyph id the size of Font::raster_bounds and the
\* coverage Font::rasterize_glyph leaves in a canvas of that size.  Glyph 0
\* is a space (empty bounds), glyph 3 has bounds of zero width.
FontGlyphs ==
    <<[w |-> 0, h |-> 0, fill |-> [base |-> 0, step |-> 0]],
      [w |-> 1, h |-> 1, fill |-> [base |-> 128, step |-> 0]],
      [w |-> 2, h |-> 1, fill |-> [base |-> 1, step |-> 64]],
      [w |-> 0, h |-> 2, fill |-> [base |-> 0, step |-> 0]]>>

RasterBounds(glyph_id) == FontGlyphs[glyph_id + 1]

\* Rect::is_empty of the bounds.
BoundsIsEmpty(b) == b.w <= 0 \/ b.h <= 0

\* Lines 82-95: the canvas of the glyph's bounds, rasterized.
RasterizeGlyph(glyph_id) ==
    LET b == RasterBounds(glyph_id) IN MkCanvas(b.w, b.h, b.fill)

\* The loop body without the test of bounds.is_empty().
PaintGlyphNoSkip(st, w, h, glyph, x, y, bld) ==
    LET gx == I32Add(F32AsI32(glyph.offset[1]), x)
        gy == I32Add(F32AsI32(glyph.offset[2]), y)
        canvas == MkCanvas(FontGlyphs[glyph.glyph_id + 1].w,
                           FontGlyphs[glyph.glyph_id + 1].h,
                           FontGlyphs[glyph.glyph_id + 1].fill)
        r == PaintFromCanvas(st.pixels, w, h, canvas, gx.val, gy.val, bld)
    IN  [pixels |-> r.pixels,
         blits |-> Append(st.blits, [canvas |-> canvas, x |-> gx.val, y |-> gy.val]),
         panic |-> r.panic]

\* Lines 65-97: the body of the loop for one glyph on the state st of the
\* call: the pixels, the paint_from_canvas calls issued so far, in order,
\* and whether the thread has panicked.
PaintGlyph(st, w, h, glyph, x, y, bld) ==
    LET gx == I32Add(F32AsI32(glyph.offset[1]), x)
        gy == I32Add(F32AsI32(glyph.offset[2]), y)
        canvas == RasterizeGlyph(glyph.glyph_id)
        r == PaintFromCanvas(st.pixels, w, h, canvas, gx.val, gy.val, bld)
    IN  IF bld = "debug" /\ (gx.ovf \/ gy.ovf) THEN [st EXCEPT !.panic = TRUE]
        ELSE IF BoundsIsEmpty(RasterBounds(glyph.glyph_id)) THEN st
        ELSE [pixels |-> r.pixels,
              blits |-> Append(st.blits,
                               [canvas |-> canvas, x |-> gx.val, y |-> gy.val]),
              panic |-> r.panic]

\* Line 64: the loop over layout.glyphs from glyph i on.
RECURSIVE PaintLayoutFrom(_, _, _, _, _, _, _, _)
PaintLayoutFrom(st, w, h, glyphs, x, y, bld, i) ==
    IF st.panic \/ i > Len(glyphs) THEN st
    ELSE PaintLayoutFrom(PaintGlyph(st, w, h, glyphs[i], x, y, bld),
                         w, h, glyphs, x, y, bld, i + 1)

PaintLayout(px, w, h, layout, x, y, bld) ==
    PaintLayoutFrom([pixels |-> px, blits |-> <<>>, panic |-> FALSE],
                    w, h, layout.glyphs, x, y, bld, 1)

(***************************************************************************)
(* The inputs of the model.                                                *)
(***************************************************************************)
Builds == {"debug", "release"}

\* All zero, all 128, all 255, and a ramp 1, 65, 129, 193 that tells the
\* canvas bytes apart.
Fills ==
    {[base |-> 0, step |-> 0], [base |-> 128, step |-> 0],
     [base |-> 255, step |-> 0], [base |-> 1, step |-> 64]}

Canvases ==
    {MkCanvas(cw, ch, f) : cw \in 0..MaxCW, ch \in 0..MaxCH, f \in Fills}

\* Offsets that put a canvas on, across and beside the surface, and the
\* ends of i32 on either axis.
NearOffsets == ((-MaxCW)..MaxW) \X ((-MaxCH)..MaxH)
FarOffsets == {MinI32, MinI32 + 1, MaxI32}
Offsets ==
    NearOffsets \cup (FarOffsets \X {0}) \cup ({0} \X FarOffsets)
        \cup {<<MinI32, MaxI32>>}

\* Positioned glyphs: a glyph id of the font and an f32 offset in half units.
Glyphs ==
    {[glyph_id |-> g, offset |-> o] :
        g \in 0..(Len(FontGlyphs) - 1), o \in {<<0, 0>>, <<3, 0>>, <<-1, 2>>}}

RECURSIVE SeqsUpTo(_, _)
SeqsUpTo(S, n) ==
    IF n = 0 THEN {<<>>}
    ELSE LET shorter == SeqsUpTo(S, n - 1)
         IN  shorter \cup {Append(q, e) : q \in shorter, e \in S}

Layouts == {[size |-> 32, glyphs |-> g] : g \in SeqsUpTo(Glyphs, MaxGlyphs)}

Origins == {<<0, 0>>, <<1, -1>>}

\* The few inputs of the runs of several calls.
SeqCanvases ==
    {MkCanvas(1, 1, [base |-> 128, step |-> 0]),
     MkCanvas(2, 1, [base |-> 255, step |-> 0]),
     MkCanvas(2, 2, [base |-> 1, step |-> 64])}

SeqOffsets == {<<0, 0>>, <<1, 0>>, <<-1, 1>>, <<MinI32, 0>>}

SeqLayouts ==
    {[size |-> 32, glyphs |-> g] :
        g \in {<<[glyph_id |-> 1, offset |-> <<0, 0>>]>>,
               <<[glyph_id |-> 2, offset |-> <<0, 0>>],
                 [glyph_id |-> 0, offset |-> <<3, 0>>],
                 [glyph_id |-> 1, offset |-> <<3, 0>>]>>}}

NoFile == [exists |-> FALSE, bytes |-> <<>>]
NoProbe == [pc |-> "off"]

(***************************************************************************)
(* The program: a surface is constructed, then its methods are called one  *)
(* after the other.                                                        *)
(***************************************************************************)
\* new allocating a square of the width.
NewSquare(w, h) == [width |-> w, height |-> h, pixels |-> [i \in 1..(w * w) |-> 0]]

\* SimpleSurface::new (render.rs 31-38).
New(w, h) == [width |-> w, height |-> h, pixels |-> [i \in 1..(w * h) |-> 0]]

Init ==
    /\ build \in Builds
    /\ ctor \in [width : 0..MaxW, height : 0..MaxH]
    /\ width = New(ctor.width, ctor.height).width
    /\ height = New(ctor.width, ctor.height).height
    /\ pixels = New(ctor.width, ctor.height).pixels
    /\ file = NoFile
    /\ panicked = FALSE
    /\ ncalls = 0
    /\ frame = [op |-> "new"]
    /\ probe = NoProbe

\* The caller can make its next call: no panic has ended the thread, the
\* last call has returned and its borrowed arguments are dropped.
CanCall(budget) == ~panicked /\ frame.op \in {"new", "none"} /\ ncalls < budget

\* The caller goes on after a call.
Continue ==
    /\ ~panicked
    /\ frame.op \notin {"new", "none"}
    /\ frame' = [op |-> "none"]
    /\ UNCHANGED <<build, ctor, width, height, pixels, file, panicked, ncalls, probe>>

PaintFromCanvasCall(canvases, offsets, budget) ==
    /\ CanCall(budget)
    /\ \E canvas \in canvases, off \in offsets :
        LET r == PaintFromCanvas(pixels, width, height, canvas, off[1], off[2], build)
        IN  /\ pixels' = r.pixels
            /\ panicked' = r.panic
            /\ frame' = [op |-> "paint", canvas |-> canvas, x |-> off[1], y |-> off[2],
                         old |-> pixels, first |-> pixels, reps |-> 1,
                         writes |-> r.writes, reads |-> r.reads, ovf |-> r.ovf]
    /\ ncalls' = ncalls + 1
    /\ UNCHANGED <<build, ctor, width, height, file, probe>>

\* The canvas of the last call is painted once more at the same offset.
PaintAgain ==
    /\ ~panicked
    /\ frame.op = "paint"
    /\ frame.reps = 1
    /\ LET r == PaintFromCanvas(pixels, width, height, frame.canvas,
                                frame.x, frame.y, build)
       IN  /\ pixels' = r.pixels
           /\ panicked' = r.panic
           /\ frame' = [frame EXCEPT !.old = pixels, !.reps = 2,
                            !.writes = r.writes, !.reads = r.reads, !.ovf = r.ovf]
    /\ UNCHANGED <<build, ctor, width, height, file, ncalls, probe>>

WritePgmCall(budget) ==
    /\ CanCall(budget)
    /\ \E io \in IoOutcomes(Len(PgmHeader(width, height)), Len(pixels)) :
        LET r == WritePgm(pixels, width, height, file, io)
        IN  /\ file' = r.file
            /\ frame' = [op |-> "write", ret |-> r.ret, io |-> io]
    /\ ncalls' = ncalls + 1
    /\ UNCHANGED <<build, ctor, width, height, pixels, panicked, probe>>

PaintLayoutCall(layouts, origins, budget) ==
    /\ CanCall(budget)
    /\ \E layout \in layouts, o \in origins :
        LET r == PaintLayout(pixels, width, height, layout, o[1], o[2], build)
        IN  /\ pixels' = r.pixels
            /\ panicked' = r.panic
            /\ frame' = [op |-> "layout", layout |-> layout, x |-> o[1], y |-> o[2],
                         old |-> pixels, blits |-> r.blits]
    /\ ncalls' = ncalls + 1
    /\ UNCHANGED <<build, ctor, width, height, file, probe>>

\* One call on a new surface, over all the inputs, and its repetition.
Next ==
    \/ PaintFromCanvasCall(Canvases, Offsets, 1)
    \/ PaintAgain
    \/ WritePgmCall(1)
    \/ PaintLayoutCall(Layouts, Origins, 1)

Spec == Init /\ [][Next]_vars

\* Runs of up to MaxCalls calls, over a few inputs.
NextSeq ==
    \/ Continue
    \/ PaintFromCanvasCall(SeqCanvases, SeqOffsets, MaxCalls)
    \/ PaintAgain
    \/ WritePgmCall(MaxCalls)
    \/ PaintLayoutCall(SeqLayouts, {<<0, 0>>}, MaxCalls)

SpecSeq == Init /\ [][NextSeq]_vars

(***************************************************************************)
(* composite on its own: the arguments are drawn, the function is applied, *)
(* and a second ink is painted over the result in both orders.             *)
(***************************************************************************)
SecondInks == {0, 65, 128, 255}

InitComposite ==
    /\ build \in Builds
    /\ ctor = [width |-> 0, height |-> 0]
    /\ width = 0
    /\ height = 0
    /\ pixels = <<>>
    /\ file = NoFile
    /\ panicked = FALSE
    /\ ncalls = 0
    /\ frame = [op |-> "new"]
    /\ probe \in [pc : {"args"}, dst : 0..U8Max, src : 0..U8Max]

CompositeCall ==
    /\ probe.pc = "args"
    /\ probe' = [pc |-> "done", dst |-> probe.dst, src |-> probe.src,
                 steps |-> CompositeSteps(probe.dst, probe.src),
                 res |-> Composite(probe.dst, probe.src)]
    /\ UNCHANGED <<build, ctor, width, height, pixels, file, panicked, ncalls, frame>>

CompositeOver ==
    /\ probe.pc = "done"
    /\ \E ink \in SecondInks :
        probe' = [pc |-> "over", dst |-> probe.dst, src |-> probe.src, ink |-> ink,
                  src_ink |-> Composite(probe.res, ink),
                  ink_src |-> Composite(Composite(probe.dst, ink), probe.src)]
    /\ UNCHANGED <<build, ctor, width, height, pixels, file, panicked, ncalls, frame>>

NextComposite == CompositeCall \/ CompositeOver

SpecComposite == InitComposite /\ [][NextComposite]_vars

(***************************************************************************)
(* What the blit is claimed to do, in unbounded integers.                  *)
(***************************************************************************)
\* b is in [max(0, -off), min(n, len - off)), written without the terms
\* -off and len - off, which are not 32-bit integers at the ends of i32.
InClip(b, off, n, len) == b >= 0 /\ b < n /\ off >= -b /\ off < len - b

\* The canvas coordinates (bx, by) of the clipped rectangle.
Covered(canvas, x, y, w, h) ==
    {c \in (0..(canvas.size.width - 1)) \X (0..(canvas.size.height - 1)) :
        /\ InClip(c[1], x, canvas.size.width, w)
        /\ InClip(c[2], y, canvas.size.height, h)}

\* Rust index of surface pixel (x + bx, y + by), for (bx, by) covered.
DstIndex(c, x, y, w) == (y + c[2]) * w + (x + c[1])

\* Rust index of canvas pixel (bx, by).
SrcIndex(c, canvas) == canvas.size.width * c[2] + c[1]

Count(seq, v) == Cardinality({i \in 1..Len(seq) : seq[i] = v})

\* after is before with the canvas blitted at (x, y), every covered pixel
\* written exactly once (writes lists the indices written) and no other.
Blitted(before, after, writes, canvas, x, y, w, h) ==
    LET cov == Covered(canvas, x, y, w, h)
        hit == {DstIndex(c, x, y, w) : c \in cov}
    IN  /\ Len(after) = Len(before)
        /\ \A c \in cov :
            LET d == DstIndex(c, x, y, w)
            IN  /\ d \in 0..(Len(before) - 1)
                /\ after[d + 1] =
                     Composite(before[d + 1], canvas.pixels[SrcIndex(c, canvas) + 1])
                /\ Count(writes, d) = 1
        /\ \A d \in 0..(Len(before) - 1) :
            d \notin hit => after[d + 1] = before[d + 1] /\ Count(writes, d) = 0
        /\ Len(writes) = Cardinality(cov)

\* C1: after one paint_from_canvas call every surface pixel (x+bx, y+by)
\* with bx in [max(0,-x), min(cw, w-x)) and by in [max(0,-y), min(ch, h-y))
\* holds composite(old value, bitmap value at (bx, by)) and was written
\* exactly once, and every other surface pixel holds its old value.
C1_BlitCompositesClippedRectangle ==
    frame.op = "paint" =>
        Blitted(frame.old, pixels, frame.writes, frame.canvas,
                frame.x, frame.y, width, height)

\* A ramp canvas cut by the left and the top edge of the surface is blitted
\* onto pixels that are no longer zero.
C1_Witness ==
    /\ frame.op = "paint"
    /\ frame.reps = 2
    /\ frame.canvas = MkCanvas(2, 2, [base |-> 1, step |-> 64])
    /\ frame.x = -1
    /\ frame.y = -1
    /\ width = 2
    /\ height = 2
    /\ frame.old = <<193, 0, 0, 0>>
    /\ pixels = <<Composite(193, 193), 0, 0, 0>>
    /\ frame.writes = <<0>>

\* C2: when the clipped range is empty in either axis (the bitmap lies
\* entirely off the surface in some direction, or has size zero),
\* paint_from_canvas changes no surface pixel and does not panic.
C2_EmptyClipIsNoOp ==
    (frame.op = "paint"
        /\ Covered(frame.canvas, frame.x, frame.y, width, height) = {})
    => (pixels = frame.old /\ ~panicked)

\* C3: whenever write_pgm returns Ok, the destination holds exactly the
\* header followed by all width * height pixel bytes; a destination that
\* was not created or not fully written makes it return an I/O error.
C3_OkMeansWholeFile ==
    (frame.op = "write" /\ frame.ret = "Ok")
    => (file.exists /\ file.bytes = PgmHeader(width, height) \o pixels)

\* C4: after SimpleSurface::new all pixels are 0, and after any sequence of
\* paint_from_canvas, paint_layout and write_pgm calls the buffer length is
\* width * height and width and height are the values of construction.
C4_BufferShapeIsFixed ==
    /\ frame.op = "new" => \A i \in 1..Len(pixels) : pixels[i] = 0
    /\ Len(pixels) = width * height
    /\ width = ctor.width
    /\ height = ctor.height
    /\ Len(pixels) = ctor.width * ctor.height

\* A 2x2 surface that was painted and then written.
C4_Witness ==
    /\ ncalls >= 2
    /\ frame.op = "write"
    /\ ctor = [width |-> 2, height |-> 2]
    /\ \E i \in 1..Len(pixels) : pixels[i] # 0
    /\ Len(pixels) = 4

\* C5: composite(dst, 0) = dst for every dst in 0..=255.
C5_ZeroInkIsIdentity ==
    (probe.pc = "done" /\ probe.src = 0) => probe.res = probe.dst

C5_Witness ==
    probe.pc = "done" /\ probe.src = 0 /\ probe.dst = 200 /\ probe.res = 200

\* C6: compositing is order-sensitive: painting 1 then 65 onto 1 differs
\* from painting 65 then 1 onto 1.
C6_OrderMatters ==
    (probe.pc = "over" /\ probe.dst = 1 /\ probe.src = 1 /\ probe.ink = 65)
    => probe.src_ink # probe.ink_src

C6_Witness ==
    /\ probe.pc = "over"
    /\ probe.dst = 1
    /\ probe.src = 1
    /\ probe.ink = 65
    /\ probe.src_ink = 66
    /\ probe.ink_src = 67

\* C7: blitting the same bitmap twice at the same offset leaves each
\* overlapping pixel at composite(composite(old, v), v); for the 2x2
\* all-128 bitmap on a zero surface that value is neither 128 nor 255.
C7_DoubleBlitAccumulates ==
    (frame.op = "paint" /\ frame.reps = 2) =>
        /\ \A c \in Covered(frame.canvas, frame.x, frame.y, width, height) :
            LET d == DstIndex(c, frame.x, frame.y, width)
                v == frame.canvas.pixels[SrcIndex(c, frame.canvas) + 1]
            IN  pixels[d + 1] = Composite(Composite(frame.first[d + 1], v), v)
        /\ frame.canvas = MkCanvas(2, 2, [base |-> 128, step |-> 0]) =>
            \A c \in Covered(frame.canvas, frame.x, frame.y, width, height) :
                LET d == DstIndex(c, frame.x, frame.y, width)
                IN  /\ frame.first[d + 1] = 0
                    /\ pixels[d + 1] \notin {128, 255}

C7_Witness ==
    /\ frame.op = "paint"
    /\ frame.reps = 2
    /\ frame.canvas = MkCanvas(2, 2, [base |-> 128, step |-> 0])
    /\ frame.x = 0
    /\ frame.y = 0
    /\ width = 2
    /\ height = 2
    /\ frame.first = <<0, 0, 0, 0>>
    /\ pixels = <<192, 192, 192, 192>>

\* C8: with p = (255-a)*(255-b), neither p nor p + (p >> 8) + 128 exceeds
\* 65535, q = (p + (p >> 8) + 128) >> 8 is at most 255, so the cast to u8
\* loses nothing, and the result is 255 - q.
C8_CompositeFitsU16 ==
    probe.pc = "done" =>
        LET p == (U8Max - probe.dst) * (U8Max - probe.src)
            s == p + (p \div 256) + 128
            q == s \div 256
        IN  /\ probe.steps.p = p
            /\ p <= U16Max
            /\ probe.steps.s = s
            /\ s <= U16Max
            /\ probe.steps.q = q
            /\ q <= U8Max
            /\ probe.steps.cast = q
            /\ probe.res = U8Max - q
            /\ probe.res \in 0..U8Max

\* The largest intermediates: both arguments 0.
C8_Witness ==
    /\ probe.pc = "done"
    /\ probe.dst = 0
    /\ probe.src = 0
    /\ probe.steps.p = 65025
    /\ probe.steps.s = 65407
    /\ probe.res = 0

\* The blits paint_layout is claimed to issue: one per glyph with non-empty
\* bounds, in layout order, at the glyph's offset plus the origin.
RECURSIVE ExpectedBlits(_, _, _)
ExpectedBlits(glyphs, x, y) ==
    IF glyphs = <<>> THEN <<>>
    ELSE LET g == Head(glyphs)
             b == RasterBounds(g.glyph_id)
             rest == ExpectedBlits(Tail(glyphs), x, y)
         IN  IF b.w = 0 \/ b.h = 0 THEN rest
             ELSE <<[canvas |-> MkCanvas(b.w, b.h, b.fill),
                     x |-> F32AsI32(g.offset[1]) + x,
                     y |-> F32AsI32(g.offset[2]) + y]>> \o rest

\* The surface after the blits of a list, one after another.
RECURSIVE ApplyBlits(_, _, _, _, _)
ApplyBlits(px, w, h, blits, bld) ==
    IF blits = <<>> THEN px
    ELSE ApplyBlits(
            PaintFromCanvas(px, w, h, Head(blits).canvas,
                            Head(blits).x, Head(blits).y, bld).pixels,
            w, h, Tail(blits), bld)

C10_BlitNeverOverflows ==
    frame.op = "paint" =>
        /\ ~frame.ovf
        /\ ~panicked
        /\ \A i \in 1..Len(frame.reads) :
            frame.reads[i] \in 0..(Len(frame.canvas.pixels) - 1)
        /\ \A i \in 1..Len(frame.writes) :
            frame.writes[i] \in 0..(width * height - 1)

====
